---- MODULE Spec2Model ----
(***************************************************************************)
(* Model of filter_playlist (src/filter_playlist.py): a single forward     *)
(* scan over the lines of an M3U playlist that keeps header lines and the  *)
(* '#EXTINF' entries whose text contains a keyword, followed by the        *)
(* summary printed at the end.  Lines are sequences of characters, so that *)
(* startswith, lower and the substring test are computed as Python does.   *)
(***************************************************************************)
EXTENDS Integers, Sequences, FiniteSets, TLC

\* Longest input playlist, in lines.
MaxLen == 4

\* ---------------------------------------------------------------- strings

UpperChars == <<"A","B","C","D","E","F","G","H","I","J","K","L","M",
                "N","O","P","Q","R","S","T","U","V","W","X","Y","Z">>

LowerChars == <<"a","b","c","d","e","f","g","h","i","j","k","l","m",
                "n","o","p","q","r","s","t","u","v","w","x","y","z">>

\* str.lower() on one ASCII character
LowerChar(c) ==
  IF \E k \in 1..Len(UpperChars) : UpperChars[k] = c
  THEN LowerChars[CHOOSE k \in 1..Len(UpperChars) : UpperChars[k] = c]
  ELSE c

\* str.lower()
Lower(s) == [k \in 1..Len(s) |-> LowerChar(s[k])]

\* str.startswith(prefix)
StartsWith(s, prefix) ==
  /\ Len(prefix) <= Len(s)
  /\ SubSeq(s, 1, Len(prefix)) = prefix

\* needle in hay
Contains(needle, hay) ==
  \E k \in 0..(Len(hay) - Len(needle)) : SubSeq(hay, k + 1, k + Len(needle)) = needle

\* ------------------------------------------------------- program constants

Hash == <<"#">>

EXTM3U == <<"#","E","X","T","M","3","U">>

EXT_X_SESSION_DATA ==
  <<"#","E","X","T","-","X","-","S","E","S","S","I","O","N","-","D","A","T","A">>

EXTINF == <<"#","E","X","T","I","N","F">>

keywords ==
  { <<"s","p","o","r","t","s">>,
    <<"f","o","o","t","b","a","l","l">>,
    <<"A","r","s","e","n","a","l">>,
    <<"P","e","a","c","o","c","k">>,
    <<"E","P","L">> }

\* ------------------------------------------------------------ input lines

\* The lines an input playlist is drawn from, each with its terminator.
LinePool ==
  { EXTM3U \o <<"\n">>,
    EXT_X_SESSION_DATA \o <<":","a","\n">>,
    EXTINF \o <<":","0",",","E","P","L","\n">>,
    EXTINF \o <<":","0",",","s","P","o","R","t","S","\n">>,
    EXTINF \o <<":","0",",","N","e","w","s","\n">>,
    <<"#","E","X","T","V","L","C","O","P","T","\n">>,
    <<"h","t","t","p",":","/","/","x","/","1","\n">> }

Playlists == UNION { [1..n -> LinePool] : n \in 0..MaxLen }

\* ------------------------------------------------------------------ state

VARIABLES
  lines,           \* the lines read from the input file
  i,               \* the cursor (0-based, as in the code)
  filtered_lines,  \* the lines kept so far
  emitted,         \* the input position of each kept line
  pc,              \* "scan" inside the while loop, "done" after the summary
  summary,         \* the three numbers printed at the end
  run              \* 1: the playlist itself, 2: the output filtered again

vars == <<lines, i, filtered_lines, emitted, pc, summary, run>>

\* lines[k] with the code's 0-based index
At(k) == lines[k + 1]

IsHeader(line) == StartsWith(line, EXTM3U) \/ StartsWith(line, EXT_X_SESSION_DATA)

IsExtinf(line) == StartsWith(line, EXTINF)

line_lower(line) == Lower(line)

matches(line) == \E keyword \in keywords : Contains(Lower(keyword), line_lower(line))

\* i < len(lines) and not lines[i].startswith('#'), evaluated at cursor k
HasUrlAt(k) == k < Len(lines) /\ ~StartsWith(At(k), Hash)

NoSummary == [total_original |-> 0, total_filtered |-> 0, channels_matched |-> 0]

Init ==
  /\ lines \in Playlists
  /\ i = 0
  /\ filtered_lines = <<>>
  /\ emitted = <<>>
  /\ pc = "scan"
  /\ summary = NoSummary
  /\ run = 1

\* ---------------------------------------------------------------- actions

\* HeaderStep that keeps the lower-cased line instead of the line.
HeaderStep_Lowered ==
  /\ pc = "scan"
  /\ i < Len(lines)
  /\ IsHeader(At(i))
  /\ filtered_lines' = Append(filtered_lines, line_lower(At(i)))
  /\ emitted' = Append(emitted, i)
  /\ i' = i + 1
  /\ UNCHANGED <<lines, pc, summary, run>>

\* One iteration on a header line: keep it.
HeaderStep ==
  /\ pc = "scan"
  /\ i < Len(lines)
  /\ IsHeader(At(i))
  /\ filtered_lines' = Append(filtered_lines, At(i))
  /\ emitted' = Append(emitted, i)
  /\ i' = i + 1
  /\ UNCHANGED <<lines, pc, summary, run>>

\* ExtinfMatchStep that keeps the '#EXTINF' line but forgets its URL line.
ExtinfMatchStep_NoUrl ==
  /\ pc = "scan"
  /\ i < Len(lines)
  /\ ~IsHeader(At(i))
  /\ IsExtinf(At(i))
  /\ matches(At(i))
  /\ filtered_lines' = Append(filtered_lines, At(i))
  /\ emitted' = Append(emitted, i)
  /\ i' = i + 2
  /\ UNCHANGED <<lines, pc, summary, run>>

\* One iteration on an '#EXTINF' line that contains a keyword.
ExtinfMatchStep ==
  /\ pc = "scan"
  /\ i < Len(lines)
  /\ ~IsHeader(At(i))
  /\ IsExtinf(At(i))
  /\ matches(At(i))
  /\ IF HasUrlAt(i + 1)
     THEN /\ filtered_lines' = filtered_lines \o <<At(i), At(i + 1)>>
          /\ emitted' = emitted \o <<i, i + 1>>
          /\ i' = i + 2
     ELSE /\ filtered_lines' = Append(filtered_lines, At(i))
          /\ emitted' = Append(emitted, i)
          /\ i' = i + 2
  /\ UNCHANGED <<lines, pc, summary, run>>

\* One iteration on an '#EXTINF' line that contains no keyword.
ExtinfSkipStep ==
  /\ pc = "scan"
  /\ i < Len(lines)
  /\ ~IsHeader(At(i))
  /\ IsExtinf(At(i))
  /\ ~matches(At(i))
  /\ i' = IF HasUrlAt(i + 1) THEN i + 2 ELSE i + 1
  /\ UNCHANGED <<lines, filtered_lines, emitted, pc, summary, run>>

\* OtherStep that keeps the line instead of dropping it.
OtherStep_Keep ==
  /\ pc = "scan"
  /\ i < Len(lines)
  /\ ~IsHeader(At(i))
  /\ ~IsExtinf(At(i))
  /\ filtered_lines' = Append(filtered_lines, At(i))
  /\ emitted' = Append(emitted, i)
  /\ i' = i + 1
  /\ UNCHANGED <<lines, pc, summary, run>>

\* One iteration on any other line: drop it.
OtherStep ==
  /\ pc = "scan"
  /\ i < Len(lines)
  /\ ~IsHeader(At(i))
  /\ ~IsExtinf(At(i))
  /\ i' = i + 1
  /\ UNCHANGED <<lines, filtered_lines, emitted, pc, summary, run>>

\* The loop exits; the output is written and the summary printed.
Finish ==
  /\ pc = "scan"
  /\ ~(i < Len(lines))
  /\ pc' = "done"
  /\ summary' = [total_original   |-> Len(lines),
                 total_filtered   |-> Len(filtered_lines),
                 channels_matched |-> (Len(filtered_lines) - 2) \div 2]
  /\ UNCHANGED <<lines, i, filtered_lines, emitted, run>>

\* filter_playlist is called again on the file it has just written.
Refilter ==
  /\ pc = "done"
  /\ run = 1
  /\ lines' = filtered_lines
  /\ i' = 0
  /\ filtered_lines' = <<>>
  /\ emitted' = <<>>
  /\ pc' = "scan"
  /\ summary' = NoSummary
  /\ run' = 2

Next ==
  \/ HeaderStep
  \/ ExtinfMatchStep
  \/ ExtinfSkipStep
  \/ OtherStep
  \/ Finish
  \/ Refilter

Spec == Init /\ [][Next]_vars

\* ------------------------------------------------------------- properties

\* The input positions kept so far.
EmittedSet == { emitted[j] : j \in 1..Len(emitted) }

\* The line at input position k was kept, unchanged.
KeptAt(k) == \E j \in 1..Len(emitted) : emitted[j] = k /\ filtered_lines[j] = At(k)

\* Input position k holds an '#EXTINF' line with an attached URL line.
EntryWithUrl(k) == k + 1 < Len(lines) /\ IsExtinf(At(k)) /\ ~StartsWith(At(k + 1), Hash)

\* The entry at k and its URL line were kept, adjacent and in that order.
BothKept(k) ==
  \E j \in 1..(Len(emitted) - 1) :
    /\ emitted[j] = k /\ emitted[j + 1] = k + 1
    /\ filtered_lines[j] = At(k) /\ filtered_lines[j + 1] = At(k + 1)

NeitherKept(k) == k \notin EmittedSet /\ (k + 1) \notin EmittedSet

\* a[ja..] embeds in b[jb..] in order (greedy left-to-right matching)
RECURSIVE SubseqFrom(_, _, _, _)
SubseqFrom(a, b, ja, jb) ==
  IF ja > Len(a) THEN TRUE
  ELSE IF jb > Len(b) THEN FALSE
  ELSE IF a[ja] = b[jb] THEN SubseqFrom(a, b, ja + 1, jb + 1)
  ELSE SubseqFrom(a, b, ja, jb + 1)

IsSubsequence(a, b) == SubseqFrom(a, b, 1, 1)

\* The number of '#EXTINF' lines that were matched and kept.
MatchedEntries == Cardinality({ j \in 1..Len(emitted) : IsExtinf(At(emitted[j])) })

\* C1: when the scan is over, every header line of the input has been kept,
\* unchanged, wherever it stands in the input.
HeadersAllKept ==
  pc = "done" => \A k \in 0..(Len(lines) - 1) : IsHeader(At(k)) => KeptAt(k)

\* C2: filtering the output again with the same keywords gives the same
\* output, line for line.
FilterIdempotent ==
  (pc = "done" /\ run = 2) => filtered_lines = lines

\* C3: when the scan is over, every '#EXTINF' line of the input that contains
\* a keyword in any letter case has been kept, whatever precedes it.
MatchedExtinfKept ==
  pc = "done" =>
    \A k \in 0..(Len(lines) - 1) : (IsExtinf(At(k)) /\ matches(At(k))) => KeptAt(k)

\* C4: the matched-channel count of the summary is the number of '#EXTINF'
\* lines that were matched and kept.
CountIsMatchedEntries ==
  pc = "done" => summary.channels_matched = MatchedEntries

\* C5: every '#EXTINF' line with an attached URL line is kept together with
\* that line, adjacent and in that order, or neither of the two is kept.
PairingAtomic ==
  \A k \in 0..(Len(lines) - 2) : EntryWithUrl(k) => (BothKept(k) \/ NeitherKept(k))

\* C5 witness: a finished scan that kept one entry with its URL line and
\* dropped another entry with its URL line.
PairingAtomicWitness ==
  /\ pc = "done"
  /\ \E k \in 0..(Len(lines) - 2) : EntryWithUrl(k) /\ BothKept(k)
  /\ \E k \in 0..(Len(lines) - 2) : EntryWithUrl(k) /\ NeitherKept(k)

\* C6: the output is a subsequence of the input: every kept line is an
\* unchanged input line, taken from strictly increasing input positions.
OutputIsSubsequence ==
  /\ Len(emitted) = Len(filtered_lines)
  /\ \A j \in 1..Len(emitted) :
       /\ emitted[j] \in 0..(Len(lines) - 1)
       /\ filtered_lines[j] = At(emitted[j])
  /\ \A j \in 1..(Len(emitted) - 1) : emitted[j] < emitted[j + 1]
  /\ IsSubsequence(filtered_lines, lines)

\* C6 witness: a finished scan that kept several lines and dropped some.
OutputIsSubsequenceWitness ==
  /\ pc = "done"
  /\ Len(filtered_lines) >= 2
  /\ Len(filtered_lines) < Len(lines)
  /\ \E j \in 1..Len(filtered_lines) : IsHeader(filtered_lines[j])
  /\ \E j \in 1..Len(filtered_lines) : IsExtinf(filtered_lines[j])

\* C7: every kept line is a header line, an '#EXTINF' line containing a
\* keyword, or a line without '#' that directly follows a kept, matching
\* '#EXTINF' line in the input; no other line is kept.
OnlyHeadersAndMatchedEntries ==
  \A j \in 1..Len(filtered_lines) :
    \/ IsHeader(filtered_lines[j])
    \/ IsExtinf(filtered_lines[j]) /\ matches(filtered_lines[j])
    \/ /\ ~StartsWith(filtered_lines[j], Hash)
       /\ j > 1
       /\ emitted[j] > 0
       /\ emitted[j - 1] = emitted[j] - 1
       /\ filtered_lines[j] = At(emitted[j])
       /\ filtered_lines[j - 1] = At(emitted[j] - 1)
       /\ IsExtinf(At(emitted[j] - 1))
       /\ matches(At(emitted[j] - 1))

\* C7 witness: a finished scan that kept a URL line of a matched entry and
\* dropped both a '#' directive and a URL line with no matched entry before it.
OnlyHeadersAndMatchedEntriesWitness ==
  /\ pc = "done"
  /\ \E j \in 1..Len(filtered_lines) : ~StartsWith(filtered_lines[j], Hash)
  /\ \E k \in 0..(Len(lines) - 1) :
       /\ StartsWith(At(k), Hash) /\ ~IsHeader(At(k)) /\ ~IsExtinf(At(k))
       /\ k \notin EmittedSet
  /\ \E k \in 0..(Len(lines) - 1) : ~StartsWith(At(k), Hash) /\ k \notin EmittedSet

\* C8: on an empty input the output is empty and the summary is all zeros.
EmptyInputZeros ==
  (pc = "done" /\ lines = <<>>) =>
    /\ filtered_lines = <<>>
    /\ summary = [total_original |-> 0, total_filtered |-> 0, channels_matched |-> 0]

\* C9: an iteration on an '#EXTINF' line whose next line starts with '#'
\* moves the cursor by exactly one, matched or not.
CursorStopsBeforeMarker ==
  [][ ( /\ pc = "scan"
        /\ i + 1 < Len(lines)
        /\ IsExtinf(At(i))
        /\ StartsWith(At(i + 1), Hash) ) => i' = i + 1 ]_vars

\* C10: the scan ends with the cursor exactly at the number of input lines.
ScanEndsAtLength ==
  pc = "done" => i = Len(lines)

====
